---- MODULE Spec2Model ----
(***************************************************************************)
(* Model of the load-generation engine of performance-analyzer:            *)
(*   - WorkerServiceImpl.CreateWorker   (internal/service, worker service) *)
(*   - Worker.Start / run / get / post / createRequest                     *)
(*                                       (internal/model/entity/worker.go) *)
(*   - Worker.SetStatus and Metrics      (entity/worker_status.go)         *)
(*   - TokenManager.GetToken / requestNewToken          (pkg/tokens)       *)
(* One run (one Worker) is modelled: the service call that creates it, the *)
(* orchestrating goroutine (Start), the producer goroutine, the pool of    *)
(* run goroutines, the token manager they share, the canceller and the     *)
(* clock.                                                                  *)
(***************************************************************************)
EXTENDS Integers, Sequences, FiniteSets, TLC

\* ---------------------------------------------------------------- bounds
MaxC == 2
MaxR == 2
MaxTime == 2
MaxLat == 1
\* Direct calls of the Worker / Metrics methods: status changes, latency
\* samples (number and largest value) and requests counted.
MaxChanges == 4
MaxSamples == 3
MaxSample == 3
MaxCount == 2
\* GetStatus calls of an external reader.
MaxReads == 2
\* Tokens of a GET worker with a token endpoint, where every behaviour is examined.
MaxFairTokens == 2

\* ------------------------------------------------------------- constants
StatusCreated == "Created"
StatusRunning == "Running"
StatusFinished == "Finished"
StatusFailed == "Failed"

MethodGet == "GET"
MethodPost == "POST"

\* Percentile ranks P50, P95, P99, P999, in tenths of a percent.
Ranks == <<500, 950, 990, 999>>

Workers == 1..MaxC
Methods == {MethodGet, MethodPost, "PUT"}
Latencies == 1..MaxLat
\* Lifetimes (expires_in) the token endpoint may answer with.
TTLs == {0, MaxTime}
\* What a caller may pass to SetStatus (Status is a string type).
StatusArgs == {StatusCreated, StatusRunning, StatusFinished, StatusFailed,
               "", "running", "Paused"}
\* Latencies a caller may pass to AddLatency.
Samples == 1..MaxSample
\* time.Time{} : the FetchedAt of a never-fetched Token.
ZeroTime == 0

VARIABLES
    input,                  \* the *entity.Worker handed to CreateWorker, with the environment row
    svcPc, createErr,       \* CreateWorker: position and returned error
    inserted,               \* CreateWorker called workerRepo.Insert
    startPc,                \* Start: position of the orchestrating goroutine
    startErr,               \* what Start hands back to its caller
    Status,                 \* Worker.Status
    statusHist,             \* values Worker.Status has taken, in order
    reported,               \* statuses passed to updateStatusFunc, in order
    cbErrs,                 \* statuses whose updateStatusFunc call returned an error, in order
    completedSuccessfully,
    metricsCalls,           \* number of updateMetricsFunc invocations
    requests, reqClosed,    \* the requests channel: buffered tokens, closed flag
    prodPc, prodI,          \* producer goroutine
    wgCount, doneClosed,    \* the WaitGroup and the done channel
    cancelled,              \* ctx.Done() is closed
    wpc,                    \* position of each run goroutine
    wlat,                   \* latency measured by each run goroutine for its current request
    Metrics,                \* Worker.Metrics
    httpSent,               \* requests handed to client.Do: sequence of methods used
    Token, tmMu,            \* TokenManager.Token, holders of TokenManager.mu
    refreshSent, refreshDone, \* refresh requests sent / refresh responses stored
    now,                    \* the clock
    call,                   \* per goroutine: bookkeeping of its latest GetToken call
    firstEvent,             \* which of done / ctx.Done() happened first
    readyAtSelect,          \* the cases that could proceed when the select was resolved
    bearer,                 \* per goroutine: the token in the Authorization header of its request
    op,                     \* the latest direct call of a Worker / Metrics method, outside a run
    statusMu,               \* Worker.mu is held
    setPc, setArg,          \* a SetStatus call taken lock by lock: position and argument
    lastRead,               \* GetStatus calls made, and what the latest one returned
    sentAtReturn            \* requests handed to client.Do so far when Start returned

svcVars == <<input, svcPc, createErr, inserted>>
startVars == <<startPc, startErr, Status, statusHist, reported, cbErrs, completedSuccessfully,
               metricsCalls, readyAtSelect, sentAtReturn>>
chanVars == <<requests, reqClosed, prodPc, prodI, wgCount, doneClosed>>
tokVars == <<Token, tmMu, refreshSent, refreshDone, call>>
vars == <<input, svcPc, createErr, inserted, startPc, startErr, Status, statusHist, reported, cbErrs,
          completedSuccessfully, metricsCalls, requests, reqClosed, prodPc, prodI, wgCount,
          doneClosed, cancelled, wpc, wlat, Metrics, httpSent, Token, tmMu, refreshSent,
          refreshDone, now, call, firstEvent, readyAtSelect, bearer, op, statusMu, setPc, setArg,
          lastRead, sentAtReturn>>
lockVars == <<statusMu, setPc, setArg, lastRead>>

\* ---------------------------------------------------------------- helpers
Max(S) == CHOOSE x \in S : \A y \in S : x >= y

Concurrency == input.Concurrency
RequestsPerTask == input.RequestsPerTask
\* CreateWorker attaches a TokenManager iff the environment has a token endpoint.
HasTokenManager == input.TokenEndpoint

\* Bookkeeping of one GetToken call, kept from the arrival at tm.mu.Lock()
\* until the request it was made for has been answered.  st: "none", "in"
\* (not yet returned) or "ok" (returned a value); arrExpired: the cache was
\* expired at the arrival; seen: refresh responses stored since the arrival
\* (counted up to 2) and seenVal the value of the first of them; lapsed: a
\* token stored during the call expired during it; overlap: the goroutines
\* whose call was in progress at the arrival; val: the value returned.
NoCall == [st |-> "none", arrExpired |-> FALSE, seen |-> 0, seenVal |-> 0,
           lapsed |-> FALSE, overlap |-> {}, val |-> 0]

\* No method has been called directly.  name: the method; arg: the status
\* passed to SetStatus; before: Worker.Status when it was called; err: the
\* method returned an error.
NoOp == [name |-> "none", arg |-> "", before |-> "", err |-> FALSE]

\* No GetStatus call yet.  n: calls made; val: the value returned by the
\* latest; duringWrite: SetStatus was inside its critical section then.
NoRead == [n |-> 0, val |-> "", duringWrite |-> FALSE]

ZeroToken == [Value |-> 0, ExpiresIn |-> 0, FetchedAt |-> ZeroTime]

\* NewMetrics: zero counters, no latencies; MaxLatency, ErrorRate and the
\* Percentiles map (rank -> twice the value, <<>> while empty) are the derived fields.
NewMetrics == [TotalRequests |-> 0, FailedRequests |-> 0, latencies |-> <<>>,
               MaxLatency |-> 0, ErrorRate |-> [num |-> 0, den |-> 1], Percentiles |-> <<>>]

Init ==
    /\ input \in [EnvironmentID : 0..1, Concurrency : 0..MaxC, RequestsPerTask : 0..MaxR,
                  HTTPMethod : Methods, Disabled : BOOLEAN, TokenEndpoint : BOOLEAN]
    /\ svcPc = "call"
    /\ createErr = "none"
    /\ inserted = FALSE
    /\ startPc = "notStarted"
    /\ startErr = FALSE
    /\ Status = StatusCreated
    /\ statusHist = <<StatusCreated>>
    /\ reported = <<>>
    /\ cbErrs = <<>>
    /\ completedSuccessfully = FALSE
    /\ metricsCalls = 0
    /\ requests = 0
    /\ reqClosed = FALSE
    /\ prodPc = "notStarted"
    /\ prodI = 0
    /\ wgCount = 0
    /\ doneClosed = FALSE
    /\ cancelled = FALSE
    /\ wpc = [w \in Workers |-> "notStarted"]
    /\ wlat = [w \in Workers |-> 0]
    /\ Metrics = NewMetrics
    /\ httpSent = <<>>
    /\ Token = ZeroToken
    /\ tmMu = {}
    /\ refreshSent = 0
    /\ refreshDone = 0
    /\ now = 1
    /\ call = [w \in Workers |-> NoCall]
    /\ firstEvent = "none"
    /\ readyAtSelect = {}
    /\ bearer = [w \in Workers |-> 0]
    /\ op = NoOp
    /\ statusMu = FALSE
    /\ setPc = "idle"
    /\ setArg = ""
    /\ lastRead = NoRead
    /\ sentAtReturn = 0


\* ------------------------------------------------------------ the service
\* validateWorkerInput
ValidInputBug(in) == TRUE
ValidInput(in) ==
    ~(in.EnvironmentID < 1 \/ in.Concurrency < 1 \/ in.RequestsPerTask < 1)

\* CreateWorker: validation, environment lookup, disabled check, Insert, Get,
\* then `go worker.Start(...)` and `return worker, nil`.  repoErr is the
\* outcome of the repository calls: "none", or the call that failed.
CreateWorker(repoErr) ==
    /\ svcPc = "call"
    /\ svcPc' = "returned"
    /\ IF ~ValidInput(input)
       THEN createErr' = "ErrInvalidInput" /\ startPc' = startPc /\ inserted' = FALSE
       ELSE IF repoErr = "envGet"
       THEN createErr' = "envGet" /\ startPc' = startPc /\ inserted' = FALSE
       ELSE IF input.Disabled
       THEN createErr' = "ErrEnvironmentDisabled" /\ startPc' = startPc /\ inserted' = FALSE
       ELSE IF repoErr \in {"insert", "get"}
       THEN createErr' = repoErr /\ startPc' = startPc /\ inserted' = TRUE
       ELSE createErr' = "none" /\ startPc' = "cbRunning" /\ inserted' = TRUE
    /\ UNCHANGED <<input, startErr, Status, statusHist, reported, cbErrs, completedSuccessfully,
                   metricsCalls, readyAtSelect, chanVars, cancelled, wpc, wlat, Metrics, httpSent,
                   tokVars, now, firstEvent, bearer, op, lockVars, sentAtReturn>>

\* ------------------------------------------------------------- SetStatus
ValidStatusBug(s) == TRUE
ValidStatus(s) == s \in {StatusCreated, StatusRunning, StatusFinished, StatusFailed}

\* Worker.SetStatus: stores s if it is one of the four statuses, else only logs.
SetStatus(s) ==
    IF ValidStatus(s)
    THEN /\ Status' = s
         /\ statusHist' = IF s = Status THEN statusHist ELSE Append(statusHist, s)
    ELSE UNCHANGED <<Status, statusHist>>

\* ------------------------------------------------------------------ Start
\* Where Start continues after the first updateStatusFunc call.
AfterRunningCbBug(err) == "spawn"
AfterRunningCb(err) == IF err THEN "returned" ELSE "spawn"

\* Start, lines 53-57: report Running; on error log and return, else SetStatus.
StartRunningCb(err) ==
    /\ startPc = "cbRunning"
    /\ reported' = Append(reported, StatusRunning)
    /\ cbErrs' = IF err THEN Append(cbErrs, StatusRunning) ELSE cbErrs
    /\ startPc' = AfterRunningCb(err)
    /\ IF err THEN UNCHANGED <<Status, statusHist>> ELSE SetStatus(StatusRunning)
    /\ UNCHANGED <<svcVars, startErr, completedSuccessfully, metricsCalls, readyAtSelect,
                   chanVars, cancelled, wpc, wlat, Metrics, httpSent, tokVars, now, firstEvent,
                   bearer, op, lockVars, sentAtReturn>>

\* Start, lines 59-93: the deferred function is registered, the channels are
\* made, Concurrency run goroutines are started (wg.Add(1) before each) and
\* the producer goroutine is started.
StartSpawn ==
    /\ startPc = "spawn"
    /\ startPc' = "select"
    /\ wgCount' = wgCount + Concurrency
    /\ wpc' = [w \in Workers |-> IF w <= Concurrency THEN "recv" ELSE wpc[w]]
    /\ prodPc' = "send"
    /\ UNCHANGED <<svcVars, startErr, Status, statusHist, reported, cbErrs,
                   completedSuccessfully, metricsCalls, readyAtSelect, requests, reqClosed,
                   prodI, doneClosed, cancelled, wlat, Metrics, httpSent, tokVars, now, firstEvent,
                   bearer, op, lockVars, sentAtReturn>>

\* A select without the ctx.Done() case.
ReadyCasesBug == IF doneClosed THEN {"done"} ELSE {}

\* The cases of the select (lines 95-101) that can proceed.
ReadyCases == (IF doneClosed THEN {"done"} ELSE {}) \cup (IF cancelled THEN {"cancel"} ELSE {})

\* Start, lines 95-101: one case that can proceed is chosen.
StartSelect(case) ==
    /\ startPc = "select"
    /\ case \in ReadyCases
    /\ completedSuccessfully' = (case = "done")
    /\ readyAtSelect' = ReadyCases
    /\ startPc' = "cbFinished"
    /\ UNCHANGED <<svcVars, startErr, Status, statusHist, reported, cbErrs, metricsCalls,
                   chanVars, cancelled, wpc, wlat, Metrics, httpSent, tokVars, now, firstEvent,
                   bearer, op, lockVars, sentAtReturn>>

\* Start, lines 103-107: report Finished; on error log and return (the
\* deferred function runs), else SetStatus(Finished).
StartFinishedCb(err) ==
    /\ startPc = "cbFinished"
    /\ reported' = Append(reported, StatusFinished)
    /\ cbErrs' = IF err THEN Append(cbErrs, StatusFinished) ELSE cbErrs
    /\ startPc' = IF err THEN "defer" ELSE "stats"
    /\ IF err THEN UNCHANGED <<Status, statusHist>> ELSE SetStatus(StatusFinished)
    /\ UNCHANGED <<svcVars, startErr, completedSuccessfully, metricsCalls, readyAtSelect,
                   chanVars, cancelled, wpc, wlat, Metrics, httpSent, tokVars, now, firstEvent,
                   bearer, op, lockVars, sentAtReturn>>


\* ------------------------------------------------ statistics (Metrics)
\* Metrics.IncrementTotalRequests.
IncrementTotalRequestsBug(m) == m
IncrementTotalRequests(m) == [m EXCEPT !.TotalRequests = @ + 1]

RECURSIVE Insert(_, _)
Insert(x, sorted) ==
    IF sorted = <<>> THEN <<x>>
    ELSE IF x <= Head(sorted) THEN <<x>> \o sorted
    ELSE <<Head(sorted)>> \o Insert(x, Tail(sorted))

RECURSIVE SortedCopy(_)
SortedCopyBug(s) == s
SortedCopy(s) == IF s = <<>> THEN <<>> ELSE Insert(Head(s), SortedCopy(Tail(s)))

\* calculatePercentile -> stats.Percentile(latencies, rank), rank in tenths of a
\* percent.  The result is [err, val] with val twice the percentile (the
\* library averages two neighbours).  Empty input is an error; a single sample
\* is returned as is; rank <= 0 or > 100 is an error; index = rank/100 * len.
calculatePercentile(lat, rank10) ==
    LET n == Len(lat)
        c == SortedCopy(lat)
        i == (rank10 * n) \div 1000
    IN  IF n = 0 THEN [err |-> TRUE, val |-> 0]
        ELSE IF n = 1 THEN [err |-> FALSE, val |-> 2 * lat[1]]
        ELSE IF rank10 <= 0 \/ rank10 > 1000 THEN [err |-> TRUE, val |-> 0]
        ELSE IF (rank10 * n) % 1000 = 0 THEN [err |-> FALSE, val |-> 2 * c[i]]
        ELSE IF rank10 * n > 1000 THEN [err |-> FALSE, val |-> c[i] + c[i + 1]]
        ELSE [err |-> TRUE, val |-> 0]

\* Metrics.CalculatePercentiles: ranks are computed in order and stored one by
\* one; the first error stops the loop and is returned.
RECURSIVE PercentilesFrom(_, _, _)
PercentilesFrom(lat, k, acc) ==
    IF k > Len(Ranks) THEN [err |-> FALSE, map |-> acc]
    ELSE LET r == calculatePercentile(lat, Ranks[k])
         IN  IF r.err THEN [err |-> TRUE, map |-> acc]
             ELSE PercentilesFrom(lat, k + 1, Append(acc, r.val))

CalculatePercentiles(m) == PercentilesFrom(m.latencies, 1, <<>>)

\* Metrics.CalculateMaxLatency: running maximum from zero.
CalculateMaxLatency(m) ==
    IF m.latencies = <<>> THEN 0
    ELSE Max({m.latencies[k] : k \in 1..Len(m.latencies)})

\* Metrics.CalculateErrorRate: 0 when there was no request, else failed / total.
CalculateErrorRateBug(m) == [num |-> m.FailedRequests, den |-> m.TotalRequests]
CalculateErrorRate(m) ==
    IF m.TotalRequests = 0 THEN [num |-> 0, den |-> 1]
    ELSE [num |-> m.FailedRequests, den |-> m.TotalRequests]

\* Start, lines 109-116: percentiles; on error log and return (the deferred
\* function runs); else maximum latency and error rate.
StartStats ==
    /\ startPc = "stats"
    /\ LET p == CalculatePercentiles(Metrics)
       IN  IF p.err
           THEN /\ startPc' = "defer"
                /\ Metrics' = IF p.map = <<>> THEN Metrics
                              ELSE [Metrics EXCEPT !.Percentiles = p.map]
           ELSE /\ startPc' = "cbMetrics"
                /\ Metrics' = [Metrics EXCEPT !.Percentiles = p.map,
                                              !.MaxLatency = CalculateMaxLatency(Metrics),
                                              !.ErrorRate = CalculateErrorRate(Metrics)]
    /\ UNCHANGED <<svcVars, startErr, Status, statusHist, reported, cbErrs,
                   completedSuccessfully, metricsCalls, readyAtSelect, chanVars, cancelled,
                   wpc, wlat, httpSent, tokVars, now, firstEvent, bearer, op, lockVars,
                   sentAtReturn>>

\* Start, lines 118-121: hand the metrics to updateMetricsFunc; an error is logged.
StartMetricsCb(err) ==
    /\ startPc = "cbMetrics"
    /\ metricsCalls' = metricsCalls + 1
    /\ startPc' = "defer"
    /\ UNCHANGED <<svcVars, startErr, Status, statusHist, reported, cbErrs,
                   completedSuccessfully, readyAtSelect, chanVars, cancelled, wpc, wlat,
                   Metrics, httpSent, tokVars, now, firstEvent, bearer, op, lockVars,
                   sentAtReturn>>

\* The deferred function's choice of the final status (lines 62-67).
FinalStatusBug(completed) == StatusFinished
FinalStatus(completed) == IF completed THEN StatusFinished ELSE StatusFailed

\* Start, lines 61-73: the deferred function reports the final status (an
\* error is logged) and stores it; then Start returns, without a result.
StartDefer(err) ==
    /\ startPc = "defer"
    /\ reported' = Append(reported, FinalStatus(completedSuccessfully))
    /\ cbErrs' = IF err THEN Append(cbErrs, FinalStatus(completedSuccessfully)) ELSE cbErrs
    /\ SetStatus(FinalStatus(completedSuccessfully))
    /\ startPc' = "returned"
    /\ sentAtReturn' = Len(httpSent)
    /\ UNCHANGED <<svcVars, startErr, completedSuccessfully, metricsCalls, readyAtSelect,
                   chanVars, cancelled, wpc, wlat, Metrics, httpSent, tokVars, now, firstEvent,
                   bearer, op, lockVars>>


\* --------------------------------------------------------------- producer
\* Records which of the two events of the select happened first.
Mark(ev) == IF firstEvent = "none" THEN ev ELSE firstEvent

\* Producer, line 86: the number of tokens the loop sends.
TokenCountBug == RequestsPerTask
TokenCount == Concurrency * RequestsPerTask

\* Producer, lines 86-88: `requests <- i`; blocks while the buffer (capacity
\* Concurrency) is full.
ProducerSend ==
    /\ prodPc = "send"
    /\ prodI < TokenCount
    /\ requests < Concurrency
    /\ requests' = requests + 1
    /\ prodI' = prodI + 1
    /\ UNCHANGED <<svcVars, startVars, reqClosed, prodPc, wgCount, doneClosed, cancelled,
                   wpc, wlat, Metrics, httpSent, tokVars, now, firstEvent, bearer,
                   op, lockVars>>

\* Producer, line 89: close(requests) once every token has been sent.
ProducerClose ==
    /\ prodPc = "send"
    /\ prodI = TokenCount
    /\ reqClosed' = TRUE
    /\ prodPc' = "wait"
    /\ UNCHANGED <<svcVars, startVars, requests, prodI, wgCount, doneClosed, cancelled,
                   wpc, wlat, Metrics, httpSent, tokVars, now, firstEvent, bearer,
                   op, lockVars>>

\* Producer, line 91: wg.Wait() returns when the counter is zero.
WaitReturnsBug == TRUE
WaitReturns == wgCount = 0

\* Producer, lines 91-92: wg.Wait() returns; close(done).
ProducerDone ==
    /\ prodPc = "wait"
    /\ WaitReturns
    /\ doneClosed' = TRUE
    /\ prodPc' = "done"
    /\ firstEvent' = Mark("done")
    /\ UNCHANGED <<svcVars, startVars, requests, reqClosed, prodI, wgCount, cancelled,
                   wpc, wlat, Metrics, httpSent, tokVars, now, bearer, op, lockVars>>

\* The context is cancelled by its owner; later cancellations are no-ops.
Cancel ==
    /\ startPc # "notStarted"
    /\ ~cancelled
    /\ cancelled' = TRUE
    /\ firstEvent' = Mark("cancel")
    /\ UNCHANGED <<svcVars, startVars, chanVars, wpc, wlat, Metrics, httpSent, tokVars, now,
                   bearer, op, lockVars>>

\* ---------------------------------------------------------- token manager
\* GetToken, line 46: time.Now().After(FetchedAt.Add(ExpiresIn)).
ExpiredBug(tok, t) == t >= tok.FetchedAt + tok.ExpiresIn
Expired(tok, t) == t > tok.FetchedAt + tok.ExpiresIn

\* tm.mu.Lock() can proceed.
MuFreeBug == TRUE
MuFree == tmMu = {}

\* Bookkeeping: goroutine w arrives at GetToken.
Arrive(w) ==
    [v \in Workers |->
        IF v = w
        THEN [NoCall EXCEPT !.st = "in", !.arrExpired = Expired(Token, now),
                            !.overlap = {u \in Workers \ {w} : call[u].st = "in"}]
        ELSE call[v]]

\* Bookkeeping: a refresh response with the given value is stored.
Stored(c, value) ==
    [v \in Workers |->
        IF c[v].st = "in"
        THEN [c[v] EXCEPT !.seen = IF @ < 2 THEN @ + 1 ELSE @,
                          !.seenVal = IF c[v].seen = 0 THEN value ELSE @]
        ELSE c[v]]

\* Bookkeeping: the clock reaches t.
Lapse(t) ==
    [v \in Workers |->
        IF call[v].st = "in" /\ call[v].seen > 0 /\ Expired(Token, t)
        THEN [call[v] EXCEPT !.lapsed = TRUE] ELSE call[v]]

\* Bookkeeping: the GetToken call of w returns a value.  Only a call that
\* arrived at an expired cache and saw no refreshed token expire is remembered.
Return(c, w, value) ==
    [c EXCEPT ![w] = IF @.arrExpired /\ ~@.lapsed
                     THEN [@ EXCEPT !.st = "ok", !.val = value]
                     ELSE NoCall]

\* Bookkeeping: the call of w is forgotten.
Forget(c, w) ==
    [v \in Workers |-> IF v = w THEN NoCall ELSE [c[v] EXCEPT !.overlap = @ \ {w}]]

\* Time passes.
Tick ==
    /\ startPc # "notStarted"
    /\ now < MaxTime
    /\ now' = now + 1
    /\ call' = Lapse(now + 1)
    /\ UNCHANGED <<svcVars, startVars, chanVars, cancelled, wpc, wlat, Metrics, httpSent,
                   Token, tmMu, refreshSent, refreshDone, firstEvent, bearer, op, lockVars>>

\* What get and post pass to createRequest as the method.
RequestMethod(configured) == "GET"

\* ------------------------------------------------------------ pool (run)
\* run, line 127: `for range requests` is the only condition of the loop;
\* run is not given ctx, so a cancellation does not end it.
RunContinuesBug == ~cancelled
RunContinues == TRUE

\* run, lines 127-133, and createRequest up to tm.mu.Lock(): a token is
\* received and the switch on HTTPMethod dispatches.  Without a TokenManager
\* the request is built and handed to client.Do; any other method does nothing
\* and the goroutine sleeps and loops.
WorkerRecv(w) ==
    /\ wpc[w] = "recv"
    /\ RunContinues
    /\ requests > 0
    /\ requests' = requests - 1
    /\ IF input.HTTPMethod \notin {MethodGet, MethodPost}
       THEN UNCHANGED <<wpc, httpSent, call>>
       ELSE IF HasTokenManager
       THEN /\ wpc' = [wpc EXCEPT ![w] = "tokLock"]
            /\ call' = Arrive(w)
            /\ UNCHANGED httpSent
       ELSE /\ wpc' = [wpc EXCEPT ![w] = "http"]
            /\ httpSent' = Append(httpSent, RequestMethod(input.HTTPMethod))
            /\ UNCHANGED call
    /\ UNCHANGED <<svcVars, startVars, reqClosed, prodPc, prodI, wgCount, doneClosed,
                   cancelled, wlat, Metrics, Token, tmMu, refreshSent, refreshDone,
                   now, firstEvent, bearer, op, lockVars>>

\* run, line 127 and 125: the channel is closed and drained; wg.Done().
WorkerExit(w) ==
    /\ wpc[w] = "recv"
    /\ requests = 0
    /\ reqClosed
    /\ wpc' = [wpc EXCEPT ![w] = "exited"]
    /\ wgCount' = wgCount - 1
    /\ UNCHANGED <<svcVars, startVars, requests, reqClosed, prodPc, prodI, doneClosed,
                   cancelled, wlat, Metrics, httpSent, tokVars, now, firstEvent,
                   bearer, op, lockVars>>

\* GetToken, lines 43-54: the lock is taken; an unexpired token is returned
\* (and the lock released, the request built by createRequest with the value
\* in its Authorization header and handed to client.Do); for an expired
\* one the refresh request is sent, the lock being held.
TokLock(w) ==
    /\ wpc[w] = "tokLock"
    /\ MuFree
    /\ IF Expired(Token, now)
       THEN /\ tmMu' = tmMu \cup {w}
            /\ refreshSent' = refreshSent + 1
            /\ wpc' = [wpc EXCEPT ![w] = "tokRefresh"]
            /\ UNCHANGED <<call, httpSent, bearer>>
       ELSE /\ call' = Return(call, w, Token.Value)
            /\ bearer' = [bearer EXCEPT ![w] = Token.Value]
            /\ httpSent' = Append(httpSent, RequestMethod(input.HTTPMethod))
            /\ wpc' = [wpc EXCEPT ![w] = "http"]
            /\ UNCHANGED <<tmMu, refreshSent>>
    /\ UNCHANGED <<svcVars, startVars, chanVars, cancelled, wlat, Metrics, Token,
                   refreshDone, now, firstEvent, op, lockVars>>

\* GetToken, lines 48-51: when requestNewToken reports an error the method
\* returns before the assignment of line 52; the cache keeps what it held.
TokenAfterFailureBug(tok) == ZeroToken
TokenAfterFailure(tok) == tok

\* requestNewToken, lines 72-99, and the rest of GetToken, createRequest and
\* get/post up to client.Do.  outcome.kind: "fail" (transport error or status
\* other than 200), "malformed" (200 with a body that does not decode: the
\* error is logged and the zero response is used), or "ok" with expires_in = ttl.
TokRefreshResp(w, outcome) ==
    /\ wpc[w] = "tokRefresh"
    /\ tmMu' = tmMu \ {w}
    /\ IF outcome.kind = "fail"
       THEN /\ call' = Forget(call, w)
            /\ wpc' = [wpc EXCEPT ![w] = "recv"]
            /\ Token' = TokenAfterFailure(Token)
            /\ UNCHANGED <<refreshDone, httpSent, bearer>>
       ELSE LET tok == IF outcome.kind = "malformed"
                       THEN [Value |-> 0, ExpiresIn |-> 0, FetchedAt |-> now]
                       ELSE [Value |-> refreshDone + 1, ExpiresIn |-> outcome.ttl,
                             FetchedAt |-> now]
            IN  /\ Token' = tok
                /\ refreshDone' = refreshDone + 1
                /\ call' = Return(Stored(call, tok.Value), w, tok.Value)
                /\ bearer' = [bearer EXCEPT ![w] = tok.Value]
                /\ httpSent' = Append(httpSent, RequestMethod(input.HTTPMethod))
                /\ wpc' = [wpc EXCEPT ![w] = "http"]
    /\ UNCHANGED <<svcVars, startVars, chanVars, cancelled, wlat, Metrics, refreshSent,
                   now, firstEvent, op, lockVars>>

\* get, lines 152-160 / post, lines 178-185: client.Do returns.  get counts
\* the request; post records nothing.  outcome: a transport error, or the latency.
HttpReturn(w, outcome) ==
    /\ wpc[w] = "http"
    /\ IF input.HTTPMethod = MethodGet
       THEN /\ Metrics' = IncrementTotalRequests(Metrics)
            /\ wpc' = [wpc EXCEPT ![w] = IF outcome.err THEN "getFail" ELSE "getLat"]
            /\ wlat' = [wlat EXCEPT ![w] = IF outcome.err THEN 0 ELSE outcome.lat]
       ELSE /\ wpc' = [wpc EXCEPT ![w] = "recv"]
            /\ UNCHANGED <<Metrics, wlat>>
    /\ call' = Forget(call, w)
    /\ bearer' = [bearer EXCEPT ![w] = 0]
    /\ UNCHANGED <<svcVars, startVars, chanVars, cancelled, httpSent, Token, tmMu,
                   refreshSent, refreshDone, now, firstEvent, op, lockVars>>

\* get, lines 156-160: the transport error is counted.
GetFail(w) ==
    /\ wpc[w] = "getFail"
    /\ Metrics' = [Metrics EXCEPT !.FailedRequests = @ + 1]
    /\ wpc' = [wpc EXCEPT ![w] = "recv"]
    /\ UNCHANGED <<svcVars, startVars, chanVars, cancelled, wlat, httpSent, tokVars, now,
                   firstEvent, bearer, op, lockVars>>

\* get, line 165: the latency of the answered request is recorded.
GetLat(w) ==
    /\ wpc[w] = "getLat"
    /\ Metrics' = [Metrics EXCEPT !.latencies = Append(@, wlat[w])]
    /\ wlat' = [wlat EXCEPT ![w] = 0]
    /\ wpc' = [wpc EXCEPT ![w] = "recv"]
    /\ UNCHANGED <<svcVars, startVars, chanVars, cancelled, httpSent, tokVars, now,
                   firstEvent, bearer, op, lockVars>>

\* ------------------------------------------------------------------- Next
\* What the token endpoint and the target may answer.
RefreshOutcomes ==
    {[kind |-> "fail", ttl |-> 0], [kind |-> "malformed", ttl |-> 0]}
        \cup [kind : {"ok"}, ttl : TTLs]
HttpOutcomes == {[err |-> TRUE, lat |-> 0]} \cup [err : {FALSE}, lat : Latencies]

Next ==
    \/ \E e \in {"none", "envGet", "insert", "get"} : CreateWorker(e)
    \/ \E err \in BOOLEAN : StartRunningCb(err)
    \/ StartSpawn
    \/ \E c \in {"done", "cancel"} : StartSelect(c)
    \/ \E err \in BOOLEAN : StartFinishedCb(err)
    \/ StartStats
    \/ \E err \in BOOLEAN : StartMetricsCb(err)
    \/ \E err \in BOOLEAN : StartDefer(err)
    \/ ProducerSend
    \/ ProducerClose
    \/ ProducerDone
    \/ Cancel
    \/ Tick
    \/ \E w \in Workers : WorkerRecv(w)
    \/ \E w \in Workers : WorkerExit(w)
    \/ \E w \in Workers : TokLock(w)
    \/ \E w \in Workers, o \in RefreshOutcomes : TokRefreshResp(w, o)
    \/ \E w \in Workers, o \in HttpOutcomes : HttpReturn(w, o)
    \/ \E w \in Workers : GetFail(w)
    \/ \E w \in Workers : GetLat(w)

Spec == Init /\ [][Next]_vars

\* ------------------------------------------- the methods, called directly
\* What a direct call of a Worker or Metrics method leaves alone.
idleSvc == <<input, svcPc, createErr, inserted, startPc, startErr, reported, cbErrs,
             completedSuccessfully, metricsCalls, requests, reqClosed, prodPc, prodI,
             wgCount, doneClosed, cancelled, wpc, wlat, httpSent, Token, tmMu, refreshSent,
             refreshDone, now, call, firstEvent, readyAtSelect, bearer, sentAtReturn>>
idleVars == <<idleSvc, lockVars>>

\* A worker as NewWorker builds it, no run started.
NewWorkerInput == [EnvironmentID |-> 1, Concurrency |-> 1, RequestsPerTask |-> 1,
                   HTTPMethod |-> MethodGet, Disabled |-> FALSE, TokenEndpoint |-> FALSE]
InitDirect == Init /\ input = NewWorkerInput

\* Worker.SetStatus(s), s any string.
CallSetStatus(s) ==
    /\ Len(statusHist) <= MaxChanges
    /\ SetStatus(s)
    /\ op' = [NoOp EXCEPT !.name = "SetStatus", !.arg = s, !.before = Status]
    /\ UNCHANGED <<Metrics, idleVars>>

NextSetStatus == \E s \in StatusArgs : CallSetStatus(s)

SpecSetStatus == InitDirect /\ [][NextSetStatus]_vars

\* Metrics.AddLatency(l).
CallAddLatency(l) ==
    /\ Len(Metrics.latencies) < MaxSamples
    /\ Metrics' = [Metrics EXCEPT !.latencies = Append(@, l)]
    /\ op' = [NoOp EXCEPT !.name = "AddLatency"]
    /\ UNCHANGED <<Status, statusHist, idleVars>>

\* Metrics.IncrementTotalRequests.
CallIncrementTotalRequests ==
    /\ Metrics.TotalRequests < MaxCount
    /\ Metrics' = IncrementTotalRequests(Metrics)
    /\ op' = [NoOp EXCEPT !.name = "IncrementTotalRequests"]
    /\ UNCHANGED <<Status, statusHist, idleVars>>

\* Metrics.IncrementFailedRequests; as in get, a request is counted as
\* failed after it has been counted.
CallIncrementFailedRequests ==
    /\ Metrics.FailedRequests < Metrics.TotalRequests
    /\ Metrics' = [Metrics EXCEPT !.FailedRequests = @ + 1]
    /\ op' = [NoOp EXCEPT !.name = "IncrementFailedRequests"]
    /\ UNCHANGED <<Status, statusHist, idleVars>>

\* Metrics.CalculatePercentiles(P50, P95, P99, P999): the ranks computed
\* before an error are stored.
CallCalculatePercentiles ==
    /\ LET p == CalculatePercentiles(Metrics)
       IN  /\ Metrics' = IF p.map = <<>> THEN Metrics
                         ELSE [Metrics EXCEPT !.Percentiles = p.map]
           /\ op' = [NoOp EXCEPT !.name = "CalculatePercentiles", !.err = p.err]
    /\ UNCHANGED <<Status, statusHist, idleVars>>

\* Metrics.CalculateMaxLatency.
CallCalculateMaxLatency ==
    /\ Metrics' = [Metrics EXCEPT !.MaxLatency = CalculateMaxLatency(Metrics)]
    /\ op' = [NoOp EXCEPT !.name = "CalculateMaxLatency"]
    /\ UNCHANGED <<Status, statusHist, idleVars>>

\* Metrics.CalculateErrorRate.
CallCalculateErrorRate ==
    /\ Metrics' = [Metrics EXCEPT !.ErrorRate = CalculateErrorRate(Metrics)]
    /\ op' = [NoOp EXCEPT !.name = "CalculateErrorRate"]
    /\ UNCHANGED <<Status, statusHist, idleVars>>

\* ---------------------------- SetStatus and GetStatus, lock by lock
\* SetStatus, line 13: the Start goroutine calls SetStatus(s), s one of the
\* statuses Start passes, and takes w.mu.
SetStatusLock(s) ==
    /\ setPc = "idle"
    /\ ~statusMu
    /\ Len(statusHist) <= MaxChanges
    /\ statusMu' = TRUE
    /\ setArg' = s
    /\ setPc' = "locked"
    /\ UNCHANGED <<Status, statusHist, Metrics, op, lastRead, idleSvc>>

\* SetStatus, lines 15-20: the switch and the assignment.
SetStatusStore ==
    /\ setPc = "locked"
    /\ SetStatus(setArg)
    /\ setPc' = "stored"
    /\ UNCHANGED <<Metrics, op, statusMu, setArg, lastRead, idleSvc>>

\* SetStatus, line 14: the deferred w.mu.Unlock().
SetStatusUnlock ==
    /\ setPc = "stored"
    /\ statusMu' = FALSE
    /\ setPc' = "idle"
    /\ UNCHANGED <<Status, statusHist, Metrics, op, setArg, lastRead, idleSvc>>

\* What an unsynchronised read of Status may return: the stored value, or,
\* when a SetStatus call is between Lock and the end of the assignment (a
\* data race on a two-word string), the old value, the new one, or a mix
\* of the two that is neither.
TornStatus == "torn"
ReadOutcomes ==
    IF setPc = "locked" /\ ValidStatus(setArg) /\ setArg # Status
    THEN {Status, setArg, TornStatus}
    ELSE {Status}

\* GetStatus, lines 23-25: `return w.Status`, w.mu not taken.
GetStatus(v) ==
    /\ lastRead.n < MaxReads
    /\ lastRead' = [n |-> lastRead.n + 1, val |-> v, duringWrite |-> setPc = "locked"]
    /\ UNCHANGED <<Status, statusHist, Metrics, op, statusMu, setPc, setArg, idleSvc>>

NextStatusRace ==
    \/ \E s \in {StatusRunning, StatusFinished, StatusFailed} : SetStatusLock(s)
    \/ SetStatusStore
    \/ SetStatusUnlock
    \/ \E v \in ReadOutcomes : GetStatus(v)

SpecStatusRace == InitDirect /\ [][NextStatusRace]_vars

NextMetrics ==
    \/ \E l \in Samples : CallAddLatency(l)
    \/ CallIncrementTotalRequests
    \/ CallIncrementFailedRequests
    \/ CallCalculatePercentiles
    \/ CallCalculateMaxLatency
    \/ CallCalculateErrorRate

SpecMetrics == InitDirect /\ [][NextMetrics]_vars


\* ================================================================ claims
IsPrefix(s, t) == Len(s) <= Len(t) /\ \A k \in 1..Len(s) : s[k] = t[k]

Terminal == {StatusFinished, StatusFailed}
Returned == startPc = "returned"
\* The first updateStatusFunc call (Running) returned an error.
RunningCbFailed == cbErrs # <<>> /\ cbErrs[1] = StatusRunning
\* Start went past the first callback and has returned.
RunEnded == Returned /\ ~RunningCbFailed
\* Some updateStatusFunc call carrying a terminal status returned an error.
TerminalCbFailed == \E k \in 1..Len(cbErrs) : cbErrs[k] \in Terminal

\* C1: the values taken by Status and the statuses passed to onStatusChange
\* are each a prefix of Created, Running, Finished or of Created, Running,
\* Failed (for the callback, of what follows Created).
C1_StatusMonotonic ==
    /\ \/ IsPrefix(statusHist, <<StatusCreated, StatusRunning, StatusFinished>>)
       \/ IsPrefix(statusHist, <<StatusCreated, StatusRunning, StatusFailed>>)
    /\ \/ IsPrefix(reported, <<StatusRunning, StatusFinished>>)
       \/ IsPrefix(reported, <<StatusRunning, StatusFailed>>)

\* C2: once the join barrier is reached (done closed), a GET or POST run has
\* TotalRequests = Concurrency * RequestsPerTask.
C2_TotalIsCTimesR ==
    (doneClosed /\ input.HTTPMethod \in {MethodGet, MethodPost})
        => Metrics.TotalRequests = Concurrency * RequestsPerTask

\* A GetToken call that returned a value, had arrived at an expired cache and
\* saw no token refreshed during it expire.
Coalesced(w) == call[w].st = "ok"
Overlapped(v, w) == v \in call[w].overlap \/ w \in call[v].overlap

\* C3: at most one goroutine holds the token manager's lock, so at most one
\* refresh is in flight; for a GetToken call made while the cache is expired
\* (the refreshed token staying unexpired during the call) exactly one refresh
\* response is stored between its arrival and its return and the call returns
\* that refresh's value; concurrent such calls return the same value.
C3_RefreshCoalescing ==
    /\ Cardinality(tmMu) <= 1
    /\ \A w \in Workers :
          Coalesced(w) =>
              /\ call[w].seen = 1
              /\ call[w].val = call[w].seenVal
              /\ \A v \in Workers \ {w} :
                    (Coalesced(v) /\ Overlapped(v, w)) => call[v].val = call[w].val

\* C3 witness: two concurrent calls that arrived at an expired cache have both
\* returned the value of the one refresh, one of them having waited for it.
C3_Witness ==
    \E v, w \in Workers :
        /\ v # w
        /\ Coalesced(v) /\ Coalesced(w) /\ Overlapped(v, w)
        /\ call[v].val = call[w].val /\ call[v].val > 0
        /\ refreshSent = 1

\* C4 as claimed: the event that happened first decides the terminal status.
C4_FirstEventDecides ==
    RunEnded => /\ firstEvent = "done" => Status = StatusFinished
                /\ firstEvent = "cancel" => Status = StatusFailed

\* C4 as amended: the case the select takes decides the terminal status: the
\* run ends Finished if only done could proceed when the select was resolved,
\* Failed if only ctx.Done() could; it ends Finished only if done could
\* proceed and Failed only if ctx.Done() could.
C4_SelectDecides ==
    RunEnded => /\ Status \in Terminal
                /\ readyAtSelect = {"done"} => Status = StatusFinished
                /\ readyAtSelect = {"cancel"} => Status = StatusFailed
                /\ Status = StatusFinished => "done" \in readyAtSelect
                /\ Status = StatusFailed => "cancel" \in readyAtSelect

\* C4 witness: cancellation fired first and alone when the select was
\* resolved; the run ended Failed, the join barrier being reached later.
C4_Witness ==
    /\ RunEnded /\ readyAtSelect = {"cancel"} /\ firstEvent = "cancel"
    /\ Status = StatusFailed /\ doneClosed

\* C5: a run cancelled before any request completed, all callbacks succeeding,
\* goes Created, Running, Failed and hands one metrics snapshot to
\* onMetricsReady.
C5_CancelBeforeWork ==
    (RunEnded /\ ~completedSuccessfully /\ cbErrs = <<>>
        /\ Metrics.TotalRequests = 0 /\ Metrics.FailedRequests = 0
        /\ Metrics.latencies = <<>>)
    => /\ statusHist = <<StatusCreated, StatusRunning, StatusFailed>>
       /\ reported = <<StatusRunning, StatusFailed>>
       /\ metricsCalls = 1

\* C6: when the Running callback fails, Start has returned having started no
\* pool goroutine and no producer, enqueued no token, sent no request and no
\* token refresh, and made no further callback.
C6_AbortStartsNothing ==
    RunningCbFailed =>
        /\ Returned
        /\ \A w \in Workers : wpc[w] = "notStarted"
        /\ prodPc = "notStarted" /\ prodI = 0 /\ requests = 0 /\ wgCount = 0
        /\ httpSent = <<>> /\ refreshSent = 0 /\ tmMu = {}
        /\ reported = <<StatusRunning>> /\ metricsCalls = 0

\* C6 witness: Start has returned after a failed Running callback.
C6_Witness == RunningCbFailed /\ Returned /\ createErr = "none"

\* C7: when the Running callback fails, Start hands the error to its caller.
C7_ErrorReported == (RunningCbFailed /\ Returned) => startErr

\* C8: a run aborted because Running could not be persisted ends Failed.
C8_AbortEndsFailed == (RunningCbFailed /\ Returned) => Status = StatusFailed

\* C9: when a callback carrying a terminal status fails, the run still ends
\* in the status the select decided, and (in a run that completed with at
\* least one latency recorded, where the statistics can be computed) the
\* metrics are still handed to onMetricsReady.
C9_TerminalCbFailureHarmless ==
    (RunEnded /\ TerminalCbFailed) =>
        /\ Status = FinalStatus(completedSuccessfully)
        /\ (completedSuccessfully /\ Metrics.latencies # <<>>) => metricsCalls = 1

\* C10: in a run whose Running callback succeeded, onStatusChange is invoked
\* exactly twice: with Running, then with the terminal status the run ends in.
C10_TwoStatusCallbacks ==
    RunEnded => /\ Len(reported) = 2
                /\ reported[1] = StatusRunning
                /\ reported[2] = Status
                /\ Status \in Terminal

\* GetToken calls that ended in an error so far (refreshes sent that neither
\* stored a token nor are still in flight).
TokenFailures == refreshSent - refreshDone - Cardinality(tmMu)

\* C11: in a GET run with a TokenManager that has ended, every attempt whose
\* token could not be obtained made no HTTP call and was counted as a failed
\* request: the HTTP calls and the token failures add up to the C * R
\* attempts, all attempts are counted in TotalRequests, and FailedRequests
\* covers the token failures.
C11_TokenFailureCounted ==
    (doneClosed /\ HasTokenManager /\ input.HTTPMethod = MethodGet) =>
        /\ Len(httpSent) + TokenFailures = Concurrency * RequestsPerTask
        /\ Metrics.TotalRequests = Len(httpSent) + TokenFailures
        /\ Metrics.FailedRequests >= TokenFailures

\* C12: when a refresh fails (transport error or a status other than 200),
\* GetToken returns the error (no request is made with a token), the cached
\* token is exactly what it was and is still expired; an expired token stays
\* expired while it is not replaced, and every call that finds it expired
\* sends a refresh: so the call that follows a failed one sends a new refresh.
C12_FailedRefreshRetried ==
    [][\A w \in Workers :
        /\ (wpc[w] = "tokRefresh" /\ wpc'[w] = "recv") =>
              /\ Token' = Token
              /\ Expired(Token', now')
              /\ httpSent' = httpSent
        /\ (Expired(Token, now) /\ Token' = Token) => Expired(Token', now')
        /\ (wpc[w] = "tokLock" /\ wpc'[w] # "tokLock" /\ Expired(Token, now)) =>
              /\ refreshSent' = refreshSent + 1
              /\ wpc'[w] = "tokRefresh"]_vars

\* C12 witness: the first refresh failed, nothing was stored, and the call
\* that followed has sent a second refresh.
C12_Witness ==
    /\ TokenFailures = 1
    /\ refreshDone = 0
    /\ refreshSent = 2
    /\ tmMu # {}
    /\ Token = ZeroToken

\* C13: a 200 answer whose body cannot be parsed leaves the cache untouched:
\* the cache never holds an empty token that a refresh put there, that is,
\* a token with the empty value is the never-fetched token of NewTokenManager.
C13_NoEmptyTokenStored == Token.Value = 0 => Token = ZeroToken

\* C14: a refresh request is sent exactly by a GetToken call that finds the
\* clock strictly after FetchedAt + ExpiresIn.  Such a call sends it while
\* holding the lock and makes no request before the answer; when the answer
\* is stored, the value returned (the one the request carries) is the stored
\* one, fetched now.  A call that finds the clock at or before the expiry
\* sends nothing to the token endpoint, leaves the cache alone and returns
\* the cached value.
C14_RefreshIffExpired ==
    [][\A w \in Workers :
        /\ refreshSent' # refreshSent =>
              \E v \in Workers : /\ wpc[v] = "tokLock" /\ wpc'[v] = "tokRefresh"
                                 /\ now > Token.FetchedAt + Token.ExpiresIn
        /\ (wpc[w] = "tokLock" /\ wpc'[w] # "tokLock") =>
              IF now > Token.FetchedAt + Token.ExpiresIn
              THEN /\ refreshSent' = refreshSent + 1
                   /\ wpc'[w] = "tokRefresh"
                   /\ w \in tmMu'
                   /\ httpSent' = httpSent
              ELSE /\ refreshSent' = refreshSent
                   /\ Token' = Token
                   /\ wpc'[w] = "http"
                   /\ bearer'[w] = Token.Value
        /\ (wpc[w] = "tokRefresh" /\ wpc'[w] = "http") =>
              /\ refreshDone' = refreshDone + 1
              /\ Token'.FetchedAt = now
              /\ bearer'[w] = Token'.Value]_vars

\* C14 witness: a token of lifetime 0 was fetched (from the never-fetched
\* cache) and, the clock being exactly at its expiry, a second call got it
\* from the cache: two requests, one refresh.
C14_Witness ==
    /\ refreshSent = 1
    /\ Len(httpSent) = 2
    /\ Token.Value > 0
    /\ now = Token.FetchedAt + Token.ExpiresIn
    /\ \E w \in Workers : wpc[w] = "http" /\ bearer[w] = Token.Value

Statuses == {"Created", "Running", "Finished", "Failed"}

\* C15: whatever strings SetStatus is called with, Status is one of the four
\* statuses, and a call with any other string leaves Status as it was.
C15_InvalidStatusIgnored ==
    /\ Status \in Statuses
    /\ \A k \in 1..Len(statusHist) : statusHist[k] \in Statuses
    /\ (op.name = "SetStatus" /\ op.arg \notin Statuses) => Status = op.before

\* C15 witness: after some changes of status, SetStatus was called with a
\* string that is not a status.
C15_Witness ==
    /\ op.name = "SetStatus"
    /\ op.arg = "Paused"
    /\ Status = StatusFinished
    /\ Len(statusHist) > 2

\* C16: through the setter, a terminal status is never followed by another
\* status, and Created or Running, once left, is never entered again.
C16_TerminalIsFinal ==
    \A k \in 1..Len(statusHist) :
        /\ k < Len(statusHist) => statusHist[k] \notin Terminal
        /\ statusHist[k] \in {StatusCreated, StatusRunning} =>
              \A j \in 1..(k - 1) : statusHist[j] # statusHist[k]

Min(S) == CHOOSE x \in S : \A y \in S : x <= y

\* C18: right after CalculatePercentiles on a non-empty set of latencies,
\* recorded in any order, the call has succeeded, P50 <= P95 <= P99 <= P99.9,
\* and each of them lies between the smallest and the largest latency (the
\* stored values are twice the percentiles).
C18_PercentilesOrdered ==
    (op.name = "CalculatePercentiles" /\ Metrics.latencies # <<>>) =>
        LET p == Metrics.Percentiles
            S == {Metrics.latencies[k] : k \in 1..Len(Metrics.latencies)}
        IN  /\ ~op.err
            /\ Len(p) = Len(Ranks)
            /\ \A k \in 1..(Len(p) - 1) : p[k] <= p[k + 1]
            /\ \A k \in 1..Len(p) : 2 * Min(S) <= p[k] /\ p[k] <= 2 * Max(S)

\* C18 witness: percentiles computed from three distinct latencies recorded
\* out of order, the median below the upper percentiles.
C18_Witness ==
    /\ op.name = "CalculatePercentiles"
    /\ Metrics.latencies = <<3, 1, 2>>
    /\ Metrics.Percentiles[1] < Metrics.Percentiles[4]

\* Start: the run chose done, every callback succeeded, and Start returned.
CompletedNormally ==
    RunEnded /\ completedSuccessfully /\ cbErrs = <<>> /\ createErr = "none"

\* C19: in a GET run that completed normally and in which every request
\* failed at the transport level (all C * R counted, all failed, no latency),
\* the statistics are still computed and handed to onMetricsReady once, with
\* MaxLatency 0 and ErrorRate 1.
C19_AllFailedStillReported ==
    (/\ CompletedNormally
     /\ input.HTTPMethod = MethodGet
     /\ Metrics.TotalRequests = Concurrency * RequestsPerTask
     /\ Metrics.FailedRequests = Metrics.TotalRequests
     /\ Metrics.latencies = <<>>) =>
        /\ metricsCalls = 1
        /\ Metrics.MaxLatency = 0
        /\ Metrics.ErrorRate.num = Metrics.ErrorRate.den

\* C20: once the pool of a GET or POST run has drained, every request handed
\* to client.Do has left either a latency sample (it was answered) or a
\* counted failure (transport error), never both and never neither: the
\* samples and the failures add up to the requests made, and the number of
\* samples is TotalRequests - FailedRequests.
C20_LatencyOnlyForAnswered ==
    (doneClosed /\ input.HTTPMethod \in {MethodGet, MethodPost}) =>
        /\ Len(Metrics.latencies) + Metrics.FailedRequests = Len(httpSent)
        /\ Len(Metrics.latencies) = Metrics.TotalRequests - Metrics.FailedRequests

\* C21: onMetricsReady is invoked at most once per run, and from the moment
\* it has been invoked with the Metrics object no step of the run modifies
\* that object (counters, latencies, derived fields).
C21_SnapshotFrozen ==
    [][/\ metricsCalls' <= 1
       /\ metricsCalls >= 1 => Metrics' = Metrics]_vars

\* C22: Insert is called, and Start launched, only for an input with
\* EnvironmentID, Concurrency and RequestsPerTask all at least 1 and an
\* environment that is not disabled; for any other input CreateWorker
\* returns ErrInvalidInput, the lookup error or ErrEnvironmentDisabled, and
\* neither inserts nor starts.  A started run has been inserted.
C22_NoRunWithoutValidation ==
    LET positive == /\ input.EnvironmentID >= 1
                    /\ input.Concurrency >= 1
                    /\ input.RequestsPerTask >= 1
    IN  /\ (inserted \/ startPc # "notStarted") => (positive /\ ~input.Disabled)
        /\ startPc # "notStarted" => (inserted /\ createErr = "none")
        /\ (svcPc = "returned" /\ ~positive) => createErr = "ErrInvalidInput"
        /\ (svcPc = "returned" /\ positive /\ input.Disabled) =>
              createErr \in {"envGet", "ErrEnvironmentDisabled"}

\* C22 witness: CreateWorker has refused a well-formed input whose
\* environment is disabled.
C22_Witness ==
    /\ svcPc = "returned"
    /\ createErr = "ErrEnvironmentDisabled"
    /\ input.Concurrency = MaxC
    /\ ~inserted
    /\ startPc = "notStarted"

\* C23: no GetStatus call reads Status while a SetStatus call holds the
\* worker's mutex to write it, and what GetStatus returns is a status.
C23_StatusReadUnderLock ==
    /\ ~lastRead.duringWrite
    /\ lastRead.n > 0 => lastRead.val \in Statuses

\* C24: while a goroutine is between counting a failed attempt in
\* TotalRequests and counting it in FailedRequests, no other goroutine gets
\* hold of the Metrics (neither another executor updating it nor the
\* statistics computation): the only step that changes the Metrics then is
\* that goroutine's own increment of FailedRequests.
C24_FailureCountedAtomically ==
    [][\A w \in Workers :
        wpc[w] = "getFail" => (Metrics' = Metrics \/ wpc'[w] # "getFail")]_vars

\* C25: done is closed only when all C * R tokens have been sent and
\* received, the requests channel is closed and every one of the C run
\* goroutines has returned (so no request is in flight); it is closed by the
\* producer's last step, hence at most once.
C25_JoinBarrier ==
    /\ doneClosed <=> prodPc = "done"
    /\ doneClosed =>
          /\ prodI = input.Concurrency * input.RequestsPerTask
          /\ requests = 0
          /\ reqClosed
          /\ wgCount = 0
          /\ \A w \in Workers : wpc[w] = (IF w <= input.Concurrency THEN "exited"
                                                                    ELSE "notStarted")

\* C25 witness: done is closed after a pool of MaxC goroutines has sent
\* MaxC * MaxR requests.
C25_Witness ==
    /\ doneClosed
    /\ input.Concurrency = MaxC
    /\ Len(httpSent) = MaxC * MaxR

\* Executor invocations (get or post) that have not yet got their request
\* built: the goroutines waiting for or fetching a token.
BuildingRequest == Cardinality({w \in Workers : wpc[w] \in {"tokLock", "tokRefresh"}})

\* C26 (as stated): when the pool has drained, C * R tokens have been
\* produced and the request executor has been invoked C * R times (each
\* invocation sent a request or failed to get a token), whatever the method.
C26_ExecutorPerToken ==
    doneClosed =>
        /\ prodI = input.Concurrency * input.RequestsPerTask
        /\ Len(httpSent) + TokenFailures = input.Concurrency * input.RequestsPerTask

\* C26 (amended): exactly C goroutines are started; never more than C * R
\* tokens are produced and exactly C * R once the pool has drained, none left
\* in the channel; with GET or POST configured every token received has
\* led to exactly one invocation of the executor (tokens received =
\* requests sent + token failures + invocations still building their
\* request); with any other method the tokens are consumed and no executor
\* is invoked.
C26_TokenPerInvocation ==
    /\ prodI <= input.Concurrency * input.RequestsPerTask
    /\ prodPc # "notStarted" =>
          Cardinality({w \in Workers : wpc[w] # "notStarted"}) = input.Concurrency
    /\ doneClosed => (prodI = input.Concurrency * input.RequestsPerTask /\ requests = 0)
    /\ IF input.HTTPMethod \in {MethodGet, MethodPost}
       THEN prodI - requests = Len(httpSent) + TokenFailures + BuildingRequest
       ELSE Len(httpSent) = 0 /\ refreshSent = 0

\* C26 witness: a POST pool of MaxC goroutines has drained MaxC * MaxR
\* tokens, one of which ended in a token failure.
C26_Witness ==
    /\ doneClosed
    /\ input.HTTPMethod = MethodPost
    /\ input.Concurrency = MaxC
    /\ input.RequestsPerTask = MaxR
    /\ TokenFailures = 1
    /\ Len(httpSent) = MaxC * MaxR - 1

\* C27: each token received leads to at most one HTTP attempt (no retry);
\* a run that is not cancelled ends Finished, with the pool drained, whatever
\* requests failed; and the failures are tallied: once the pool of a GET or
\* POST run has drained, every attempt is counted and the attempts that left
\* no latency are counted as failed.
C27_FailuresTalliedNotFatal ==
    /\ Len(httpSent) <= prodI - requests
    /\ (RunEnded /\ ~cancelled) => (Status = StatusFinished /\ doneClosed)
    /\ (doneClosed /\ input.HTTPMethod \in {MethodGet, MethodPost}) =>
          /\ Metrics.TotalRequests = Len(httpSent)
          /\ Metrics.FailedRequests = Len(httpSent) - Len(Metrics.latencies)

\* C28: every request handed to client.Do carries the method the worker is
\* configured with.
C28_ConfiguredMethodSent ==
    \A k \in 1..Len(httpSent) : httpSent[k] = input.HTTPMethod

\* C29: in every state, 0 <= FailedRequests <= TotalRequests <= C * R, and
\* the latencies recorded plus FailedRequests do not exceed TotalRequests.
C29_CounterBounds ==
    /\ 0 <= Metrics.FailedRequests
    /\ Metrics.FailedRequests <= Metrics.TotalRequests
    /\ Metrics.TotalRequests <= input.Concurrency * input.RequestsPerTask
    /\ Len(Metrics.latencies) + Metrics.FailedRequests <= Metrics.TotalRequests

\* C29 witness: all MaxC * MaxR attempts are counted, one as failed, and a
\* goroutine has not yet recorded the outcome of its attempt.
C29_Witness ==
    /\ Metrics.TotalRequests = MaxC * MaxR
    /\ Metrics.FailedRequests = 1
    /\ Len(Metrics.latencies) + Metrics.FailedRequests < Metrics.TotalRequests

\* A step of the producer or of a run goroutine.
PoolStep ==
    \/ ProducerSend
    \/ ProducerClose
    \/ ProducerDone
    \/ \E w \in Workers : WorkerRecv(w) \/ WorkerExit(w) \/ TokLock(w) \/ GetFail(w) \/ GetLat(w)
    \/ \E w \in Workers, o \in RefreshOutcomes : TokRefreshResp(w, o)
    \/ \E w \in Workers, o \in HttpOutcomes : HttpReturn(w, o)

\* Start has returned from a cancelled run, which it marked Failed.
ReturnedFailed == Returned /\ cancelled /\ Status = StatusFailed

\* C30: once a cancelled run has been marked Failed and Start has returned,
\* the producer and the run goroutines are not stopped: until done is closed
\* one of them can always take a step, and done is closed only when all
\* C * R tokens have been produced and consumed (with GET or POST, each by a
\* request sent or a token failure).
C30_CancelStopsNoWork ==
    /\ (ReturnedFailed /\ ~doneClosed) => ENABLED PoolStep
    /\ (ReturnedFailed /\ doneClosed) =>
          /\ prodI = input.Concurrency * input.RequestsPerTask
          /\ requests = 0
          /\ input.HTTPMethod \in {MethodGet, MethodPost} =>
                Len(httpSent) + TokenFailures = input.Concurrency * input.RequestsPerTask

\* C30 witness: after Start returned Failed from a cancelled run, the pool
\* went on to drain: requests were dispatched after the return, more
\* latencies are recorded than requests had been sent at the return, and all
\* MaxC * MaxR attempts are counted.
C30_Witness ==
    /\ ReturnedFailed
    /\ doneClosed
    /\ Len(httpSent) > sentAtReturn
    /\ Len(Metrics.latencies) > sentAtReturn
    /\ Metrics.TotalRequests = MaxC * MaxR

\* --------------------------------------------------------------- fairness
\* A step of the goroutine that runs Start.
StartStep ==
    \/ \E err \in BOOLEAN : StartRunningCb(err)
    \/ StartSpawn
    \/ \E c \in {"done", "cancel"} : StartSelect(c)
    \/ \E err \in BOOLEAN : StartFinishedCb(err)
    \/ StartStats
    \/ \E err \in BOOLEAN : StartMetricsCb(err)
    \/ \E err \in BOOLEAN : StartDefer(err)

\* A step of the producer goroutine.
ProducerStep == ProducerSend \/ ProducerClose \/ ProducerDone

\* A step run goroutine w takes on its own (no answer from the network).
RunStep(w) == WorkerRecv(w) \/ WorkerExit(w) \/ TokLock(w) \/ GetFail(w) \/ GetLat(w)

\* The target or the token endpoint answers goroutine w (or the call fails).
AnswerStep(w) ==
    \/ \E o \in HttpOutcomes : HttpReturn(w, o)
    \/ \E o \in RefreshOutcomes : TokRefreshResp(w, o)

\* The runs whose every behaviour is examined: all inputs, except that a
\* GET worker with a token endpoint gets at most MaxFairTokens tokens (a
\* POST worker with a token endpoint, and a GET worker without one, get up
\* to MaxC * MaxR).
InitFair ==
    /\ Init
    /\ (input.HTTPMethod = MethodGet /\ input.TokenEndpoint) =>
          input.Concurrency * input.RequestsPerTask <= MaxFairTokens

\* The Go scheduler: a goroutine that can run eventually does.  Nothing is
\* assumed about the network, the clock or the owner of the context.
FairSpec ==
    /\ InitFair
    /\ [][Next]_vars
    /\ WF_vars(StartStep)
    /\ WF_vars(ProducerStep)
    /\ \A w \in Workers : WF_vars(RunStep(w))

\* Every HTTP request and every token refresh eventually returns.
RequestsReturn == \A w \in Workers : WF_vars(AnswerStep(w))

\* Start has started the pool and the producer.
PoolStarted == prodPc # "notStarted"

\* C31: once the pool is started, if every request and refresh eventually
\* returns, then done is eventually closed with every run goroutine exited,
\* and Start eventually returns with a terminal status; and once the context
\* is cancelled Start eventually returns with a terminal status whether or
\* not the requests return.
C31_Termination ==
    /\ RequestsReturn =>
          (PoolStarted ~> (/\ doneClosed
                           /\ \A w \in Workers : wpc[w] \in {"exited", "notStarted"}
                           /\ Returned
                           /\ Status \in Terminal))
    /\ (PoolStarted /\ cancelled) ~> (Returned /\ Status \in Terminal)

\* C31 witness: a pool of MaxC goroutines that fetched tokens has drained
\* MaxC * MaxR tokens, done is closed and Start has returned.
C31_Witness ==
    /\ doneClosed
    /\ Returned
    /\ Status \in Terminal
    /\ input.Concurrency = MaxC
    /\ Len(httpSent) + TokenFailures = MaxC * MaxR
    /\ refreshSent > 0
    /\ cancelled
    /\ \A w \in Workers : wpc[w] = "exited"

====
